---- MODULE Spec2Model ----
(***************************************************************************)
(* Model of Sources/CIO/include/macros.h: the preprocessor's macro table   *)
(* while it walks the header, one conditional group per step.  The table   *)
(* starts with the symbols the toolchain predefines; the header adds its   *)
(* own.  A translation unit may include the header more than once.         *)
(***************************************************************************)
EXTENDS Integers, FiniteSets, Sequences, TLC

\* Bounds of the model.
MaxSyms == 3
MaxIncludes == 2

\* ---------------------------------------------------------------- symbols
LinuxIds == {"__linux", "__unix", "__posix", "__LINUX__", "__linux__"}
WindowsIds == {"_WIN64", "_WIN32", "__CYGWIN32__", "__MINGW32__"}
OsxIds == {"MACOSX", "__DARWIN__", "__APPLE__"}
Arch32Ids == {"WIN_32", "__i386__", "i386", "__x86__"}
Arch64Ids == {"__amd64", "__amd64__", "__x86_64", "__x86_64__", "_M_X64", "__ia64__", "_M_IA64"}
CompilerIds == {"__clang__", "__GNUC__", "_MSC_VER"}
ValueTested == {"_M_IX86_FP", "_M_AMD64"}
NeonIds == {"__ARM_NEON__"}

\* Every identifier the header tests and does not define itself.
InputSymbols ==
    LinuxIds \cup WindowsIds \cup OsxIds \cup Arch32Ids \cup Arch64Ids
        \cup CompilerIds \cup ValueTested \cup NeonIds

PlatformFlags == {"LABSOUND_PLATFORM_LINUX", "LABSOUND_PLATFORM_WINDOWS", "LABSOUND_PLATFORM_OSX"}
ArchFlags == {"LABSOUND_ARCH_32", "LABSOUND_ARCH_64"}
CompilerFlags == {"LABSOUND_COMPILER_CLANG", "LABSOUND_COMPILER_GCC", "LABSOUND_COMPILER_VISUAL_STUDIO"}

\* Every identifier the header defines.
OutputSymbols ==
    PlatformFlags \cup ArchFlags \cup CompilerFlags
        \cup {"labsound_macros_h", "__MACOSX_CORE__", "__SSE2__", "_USE_MATH_DEFINES",
              "ARM_NEON_INTRINSICS", "WEBAUDIO_KISSFFT"}

\* The flags of the external interface (the guard and __MACOSX_CORE__ are not among them).
OutputFlags ==
    PlatformFlags \cup ArchFlags \cup CompilerFlags
        \cup {"__SSE2__", "ARM_NEON_INTRINSICS", "WEBAUDIO_KISSFFT"}

Names == InputSymbols \cup OutputSymbols

\* ----------------------------------------------------------- macro table
\* A macro is undefined, or defined with a replacement text.
Undef == "undef"
Empty == ""
\* Replacement texts a toolchain may give a symbol whose value the header reads.
Vals == {Empty, "0", "1", "2", "100"}
Tokens == {Undef} \cup Vals

\* defined(s)
Defined(m, s) == m[s] # Undef

\* defined(a) || defined(b) || ...
AnyDefined(m, S) == \E s \in S : Defined(m, s)

\* #define s v
Define(m, s, v) == [m EXCEPT ![s] = v]

RECURSIVE DefineAll(_, _, _)
DefineAll(m, S, v) ==
    IF S = {} THEN m
    ELSE LET s == CHOOSE x \in S : TRUE
         IN  DefineAll(Define(m, s, v), S \ {s}, v)

\* The integer a pp-number stands for in an #if expression.
TokenToInt(t) ==
    CASE t = "0" -> 0
      [] t = "1" -> 1
      [] t = "2" -> 2
      [] t = "100" -> 100

\* The value of identifier s inside an #if expression: an identifier that is
\* not a macro is replaced by 0, a macro by its replacement text.
PPValue(m, s) == IF m[s] = Undef THEN 0 ELSE TokenToInt(m[s])

\* All subsets of S with at most k elements.
RECURSIVE SubsetsUpTo(_, _)
SubsetsUpTo(S, k) ==
    IF k = 0 THEN {{}}
    ELSE LET P == SubsetsUpTo(S, k - 1)
         IN  P \cup {p \cup {x} : p \in P, x \in S}

\* The macro table of a toolchain predefining the symbols of S, the
\* value-tested ones with the replacement texts vals.
Toolchain(S, vals) ==
    [n \in Names |-> IF n \notin S THEN Undef
                     ELSE IF n \in ValueTested THEN vals[n]
                     ELSE "1"]

VARIABLES macros, included, pc, passes

vars == <<macros, included, pc, passes>>

TypeOK ==
    /\ macros \in [Names -> Tokens]
    /\ included \subseteq {"stdint.h", "math.h", "cmath"}
    /\ pc \in {"guard", "platform", "arch", "compiler", "sse2", "msvc", "neon",
               "math", "fft_linux", "fft_osx", "endif", "done", "error"}
    /\ passes \in 0..(MaxIncludes + 1)

Init ==
    /\ \E S \in SubsetsUpTo(InputSymbols, MaxSyms) :
         \E vals \in [S \cap ValueTested -> Vals] :
            macros = Toolchain(S, vals)
    /\ included = {}
    /\ pc = "guard"
    /\ passes = 0

\* ------------------------------------------------------- conditional groups
\* PlatformDefs with the Windows-like identifiers tested before the Linux-like ones.
PlatformDefsWindowsFirst(m) ==
    IF AnyDefined(m, WindowsIds) THEN {"LABSOUND_PLATFORM_WINDOWS"}
    ELSE IF AnyDefined(m, LinuxIds) THEN {"LABSOUND_PLATFORM_LINUX"}
    ELSE IF AnyDefined(m, OsxIds) THEN {"LABSOUND_PLATFORM_OSX", "__MACOSX_CORE__"}
    ELSE {}

\* PlatformDefs with the macOS-like identifiers tested before the Windows-like ones.
PlatformDefsOsxBeforeWindows(m) ==
    IF AnyDefined(m, LinuxIds) THEN {"LABSOUND_PLATFORM_LINUX"}
    ELSE IF AnyDefined(m, OsxIds) THEN {"LABSOUND_PLATFORM_OSX", "__MACOSX_CORE__"}
    ELSE IF AnyDefined(m, WindowsIds) THEN {"LABSOUND_PLATFORM_WINDOWS"}
    ELSE {}

\* Lines 5-12: the macros the platform #if/#elif chain defines.
PlatformDefs(m) ==
    IF AnyDefined(m, LinuxIds) THEN {"LABSOUND_PLATFORM_LINUX"}
    ELSE IF AnyDefined(m, WindowsIds) THEN {"LABSOUND_PLATFORM_WINDOWS"}
    ELSE IF AnyDefined(m, OsxIds) THEN {"LABSOUND_PLATFORM_OSX", "__MACOSX_CORE__"}
    ELSE {}

\* ArchDefs with the 64-bit identifiers tested first.
ArchDefs64First(m) ==
    IF AnyDefined(m, Arch64Ids) THEN {"LABSOUND_ARCH_64"}
    ELSE IF AnyDefined(m, Arch32Ids) THEN {"LABSOUND_ARCH_32"}
    ELSE {}

\* Lines 14-18.
ArchDefs(m) ==
    IF AnyDefined(m, Arch32Ids) THEN {"LABSOUND_ARCH_32"}
    ELSE IF AnyDefined(m, Arch64Ids) THEN {"LABSOUND_ARCH_64"}
    ELSE {}

\* CompilerDefs with __GNUC__ tested before __clang__.
CompilerDefsGccFirst(m) ==
    IF Defined(m, "__GNUC__") THEN {"LABSOUND_COMPILER_GCC"}
    ELSE IF Defined(m, "__clang__") THEN {"LABSOUND_COMPILER_CLANG"}
    ELSE IF Defined(m, "_MSC_VER") THEN {"LABSOUND_COMPILER_VISUAL_STUDIO"}
    ELSE {}

\* CompilerDefs with a closing #else that falls back to Visual Studio.
CompilerDefsElseMsvc(m) ==
    IF Defined(m, "__clang__") THEN {"LABSOUND_COMPILER_CLANG"}
    ELSE IF Defined(m, "__GNUC__") THEN {"LABSOUND_COMPILER_GCC"}
    ELSE {"LABSOUND_COMPILER_VISUAL_STUDIO"}

\* Lines 20-26.
CompilerDefs(m) ==
    IF Defined(m, "__clang__") THEN {"LABSOUND_COMPILER_CLANG"}
    ELSE IF Defined(m, "__GNUC__") THEN {"LABSOUND_COMPILER_GCC"}
    ELSE IF Defined(m, "_MSC_VER") THEN {"LABSOUND_COMPILER_VISUAL_STUDIO"}
    ELSE {}

\* Line 28: a macro with an empty replacement text leaves "()" or "( >= 2)"
\* in the expression, which is not a constant expression.
Sse2Malformed(m) == m["_M_IX86_FP"] = Empty \/ m["_M_AMD64"] = Empty

\* Sse2Cond with defined(_M_AMD64) in place of the value test (_M_AMD64).
Sse2CondDefinedAmd64(m) ==
    \/ (PPValue(m, "_M_IX86_FP") # 0 /\ PPValue(m, "_M_IX86_FP") >= 2)
    \/ Defined(m, "_M_AMD64")
    \/ Defined(m, "_M_X64")

\* Line 28: ((_M_IX86_FP) && (_M_IX86_FP >= 2)) || (_M_AMD64) || defined(_M_X64)
Sse2Cond(m) ==
    \/ (PPValue(m, "_M_IX86_FP") # 0 /\ PPValue(m, "_M_IX86_FP") >= 2)
    \/ PPValue(m, "_M_AMD64") # 0
    \/ Defined(m, "_M_X64")

\* MsvcCond testing the toolchain's _MSC_VER instead of the resolved compiler flag.
MsvcCondRawSymbol(m) == Defined(m, "_MSC_VER")

\* Line 32.
MsvcCond(m) == Defined(m, "LABSOUND_COMPILER_VISUAL_STUDIO")

\* NeonCond keyed on the resolved 32-bit architecture as well.
NeonCondOrArch32(m) == Defined(m, "__ARM_NEON__") \/ Defined(m, "LABSOUND_ARCH_32")

\* Line 39.
NeonCond(m) == Defined(m, "__ARM_NEON__")

\* Line 43.
MathCond(m) == Defined(m, "LABSOUND_PLATFORM_OSX") \/ Defined(m, "LABSOUND_PLATFORM_LINUX")

\* -------------------------------------------------------------- the steps
\* IncludeGuard without the #define of line 3.
IncludeGuardNoDefine ==
    /\ pc = "guard"
    /\ pc' = IF Defined(macros, "labsound_macros_h") THEN "endif" ELSE "platform"
    /\ UNCHANGED <<macros, included, passes>>

\* Lines 2-3: #ifndef labsound_macros_h / #define labsound_macros_h
IncludeGuard ==
    /\ pc = "guard"
    /\ IF Defined(macros, "labsound_macros_h")
       THEN /\ pc' = "endif"
            /\ UNCHANGED macros
       ELSE /\ macros' = Define(macros, "labsound_macros_h", Empty)
            /\ pc' = "platform"
    /\ UNCHANGED <<included, passes>>

PlatformChain ==
    /\ pc = "platform"
    /\ macros' = DefineAll(macros, PlatformDefs(macros), "1")
    /\ pc' = "arch"
    /\ UNCHANGED <<included, passes>>

ArchChain ==
    /\ pc = "arch"
    /\ macros' = DefineAll(macros, ArchDefs(macros), "1")
    /\ pc' = "compiler"
    /\ UNCHANGED <<included, passes>>

CompilerChain ==
    /\ pc = "compiler"
    /\ macros' = DefineAll(macros, CompilerDefs(macros), "1")
    /\ pc' = "sse2"
    /\ UNCHANGED <<included, passes>>

\* Lines 28-30.
Sse2Check ==
    /\ pc = "sse2"
    /\ IF Sse2Malformed(macros)
       THEN /\ pc' = "error"
            /\ UNCHANGED macros
       ELSE /\ macros' = IF Sse2Cond(macros) THEN Define(macros, "__SSE2__", Empty) ELSE macros
            /\ pc' = "msvc"
    /\ UNCHANGED <<included, passes>>

\* Lines 32-37.
MsvcShims ==
    /\ pc = "msvc"
    /\ IF MsvcCond(macros)
       THEN /\ macros' = Define(macros, "_USE_MATH_DEFINES", Empty)
            /\ included' = included \cup {"stdint.h", "math.h", "cmath"}
       ELSE UNCHANGED <<macros, included>>
    /\ pc' = "neon"
    /\ UNCHANGED passes

\* Lines 39-41.
NeonCheck ==
    /\ pc = "neon"
    /\ macros' = IF NeonCond(macros) THEN Define(macros, "ARM_NEON_INTRINSICS", "1") ELSE macros
    /\ pc' = "math"
    /\ UNCHANGED <<included, passes>>

\* Lines 43-46.
MathInclude ==
    /\ pc = "math"
    /\ included' = IF MathCond(macros) THEN included \cup {"math.h"} ELSE included
    /\ pc' = "fft_linux"
    /\ UNCHANGED <<macros, passes>>

\* Lines 48-50.
KissFftLinux ==
    /\ pc = "fft_linux"
    /\ macros' = IF Defined(macros, "LABSOUND_PLATFORM_LINUX")
                 THEN Define(macros, "WEBAUDIO_KISSFFT", "1") ELSE macros
    /\ pc' = "fft_osx"
    /\ UNCHANGED <<included, passes>>

\* KissFftOsx with the define left out.
KissFftOsxNoDefine ==
    /\ pc = "fft_osx"
    /\ pc' = "endif"
    /\ UNCHANGED <<macros, included, passes>>

\* Lines 52-54.
KissFftOsx ==
    /\ pc = "fft_osx"
    /\ macros' = IF Defined(macros, "LABSOUND_PLATFORM_OSX")
                 THEN Define(macros, "WEBAUDIO_KISSFFT", "1") ELSE macros
    /\ pc' = "endif"
    /\ UNCHANGED <<included, passes>>

\* Line 56: #endif of the include guard; the header has been read once more.
EndGuard ==
    /\ pc = "endif"
    /\ pc' = "done"
    /\ passes' = passes + 1
    /\ UNCHANGED <<macros, included>>

\* The translation unit includes the header again.
IncludeAgain ==
    /\ pc = "done"
    /\ passes < MaxIncludes
    /\ pc' = "guard"
    /\ UNCHANGED <<macros, included, passes>>

Next ==
    \/ IncludeGuard
    \/ PlatformChain
    \/ ArchChain
    \/ CompilerChain
    \/ Sse2Check
    \/ MsvcShims
    \/ NeonCheck
    \/ MathInclude
    \/ KissFftLinux
    \/ KissFftOsx
    \/ EndGuard
    \/ IncludeAgain

Spec == Init /\ [][Next]_vars

\* ------------------------------------------------------------ properties
\* The header has been read to its last line.
Done == pc = "done"

\* s is defined in the current macro table.
IsSet(s) == macros[s] # Undef

\* Some symbol of S is defined in the current macro table.
Has(S) == \E s \in S : macros[s] # Undef

\* At most one symbol of S is defined.
AtMostOne(S) == \A a, b \in S : (IsSet(a) /\ IsSet(b)) => a = b

\* C1: after the header, at most one platform flag is set, and it is the
\* first matching family in the order Linux-like, Windows-like, macOS-like.
C1_PlatformFirstMatch ==
    Done =>
        /\ AtMostOne(PlatformFlags)
        /\ IsSet("LABSOUND_PLATFORM_LINUX") <=> Has(LinuxIds)
        /\ IsSet("LABSOUND_PLATFORM_WINDOWS") <=> (~Has(LinuxIds) /\ Has(WindowsIds))
        /\ IsSet("LABSOUND_PLATFORM_OSX") <=> (~Has(LinuxIds) /\ ~Has(WindowsIds) /\ Has(OsxIds))

\* A Linux-like and a Windows-like symbol together resolved to Linux.
C1_Witness ==
    /\ Done
    /\ Has(LinuxIds)
    /\ Has(WindowsIds)
    /\ IsSet("LABSOUND_PLATFORM_LINUX")
    /\ ~IsSet("LABSOUND_PLATFORM_WINDOWS")

\* C2: after the header, WEBAUDIO_KISSFFT is set if and only if the platform
\* resolved to Linux-like or macOS-like.
C2_KissFftIffLinuxOrOsx ==
    Done =>
        (IsSet("WEBAUDIO_KISSFFT")
            <=> (IsSet("LABSOUND_PLATFORM_LINUX") \/ IsSet("LABSOUND_PLATFORM_OSX")))

\* The platform resolved to macOS-like and the embedded FFT was selected.
C2_Witness ==
    /\ Done
    /\ IsSet("LABSOUND_PLATFORM_OSX")
    /\ IsSet("WEBAUDIO_KISSFFT")

\* C3 as stated: whenever a Windows-identifying symbol is present, whatever
\* else is, LABSOUND_PLATFORM_WINDOWS is set and WEBAUDIO_KISSFFT is unset.
C3_Original ==
    (Done /\ Has(WindowsIds)) =>
        (IsSet("LABSOUND_PLATFORM_WINDOWS") /\ ~IsSet("WEBAUDIO_KISSFFT"))

\* C3 amended: whenever a Windows-identifying symbol is present and no
\* Linux-like symbol is, LABSOUND_PLATFORM_WINDOWS is set and WEBAUDIO_KISSFFT
\* is unset, whatever other symbols are present.
C3_WindowsWithoutLinux ==
    (Done /\ Has(WindowsIds) /\ ~Has(LinuxIds)) =>
        (IsSet("LABSOUND_PLATFORM_WINDOWS") /\ ~IsSet("WEBAUDIO_KISSFFT"))

\* A Windows-like symbol next to a macOS-like one resolved to Windows.
C3_Witness ==
    /\ Done
    /\ Has(WindowsIds)
    /\ Has(OsxIds)
    /\ ~Has(LinuxIds)
    /\ IsSet("LABSOUND_PLATFORM_WINDOWS")
    /\ ~IsSet("WEBAUDIO_KISSFFT")

\* C4: after the header, at most one architecture flag is set; the 32-bit
\* identifiers win, and LABSOUND_ARCH_64 is set if and only if a 64-bit
\* identifier is present and no 32-bit identifier is.
C4_ArchFirstMatch ==
    Done =>
        /\ AtMostOne(ArchFlags)
        /\ IsSet("LABSOUND_ARCH_32") <=> Has(Arch32Ids)
        /\ IsSet("LABSOUND_ARCH_64") <=> (Has(Arch64Ids) /\ ~Has(Arch32Ids))

\* A 32-bit and a 64-bit identifier together resolved to 32-bit.
C4_Witness ==
    /\ Done
    /\ Has(Arch32Ids)
    /\ IsSet("__x86_64__")
    /\ IsSet("LABSOUND_ARCH_32")
    /\ ~IsSet("LABSOUND_ARCH_64")

\* C5: after the header, at most one compiler flag is set, and it is the
\* first match in the order __clang__, __GNUC__, _MSC_VER.
C5_CompilerFirstMatch ==
    Done =>
        /\ AtMostOne(CompilerFlags)
        /\ IsSet("LABSOUND_COMPILER_CLANG") <=> IsSet("__clang__")
        /\ IsSet("LABSOUND_COMPILER_GCC") <=> (~IsSet("__clang__") /\ IsSet("__GNUC__"))
        /\ IsSet("LABSOUND_COMPILER_VISUAL_STUDIO")
              <=> (~IsSet("__clang__") /\ ~IsSet("__GNUC__") /\ IsSet("_MSC_VER"))

\* A toolchain defining __clang__ and __GNUC__ resolved to Clang only.
C5_Witness ==
    /\ Done
    /\ IsSet("__clang__")
    /\ IsSet("__GNUC__")
    /\ IsSet("LABSOUND_COMPILER_CLANG")
    /\ ~IsSet("LABSOUND_COMPILER_GCC")

\* The MSVC-only compatibility shims of lines 33-36 are all in effect.
ShimsActive ==
    /\ IsSet("_USE_MATH_DEFINES")
    /\ {"stdint.h", "math.h", "cmath"} \subseteq included

\* C6 as stated: whenever _MSC_VER is present, LABSOUND_COMPILER_VISUAL_STUDIO
\* is set and the shims are activated; and the shims are activated only when
\* the compiler resolved to Visual Studio.
C6_Original ==
    Done =>
        /\ IsSet("_MSC_VER") => (IsSet("LABSOUND_COMPILER_VISUAL_STUDIO") /\ ShimsActive)
        /\ ShimsActive => IsSet("LABSOUND_COMPILER_VISUAL_STUDIO")

\* C6 amended: whenever _MSC_VER is present and neither __clang__ nor __GNUC__
\* is, LABSOUND_COMPILER_VISUAL_STUDIO is set and the shims are activated; and
\* the shims (_USE_MATH_DEFINES, <stdint.h>, <cmath>, and so the whole group)
\* are activated only when the compiler resolved to Visual Studio.
C6_MsvcShims ==
    Done =>
        /\ (IsSet("_MSC_VER") /\ ~IsSet("__clang__") /\ ~IsSet("__GNUC__"))
              => (IsSet("LABSOUND_COMPILER_VISUAL_STUDIO") /\ ShimsActive)
        /\ ShimsActive => IsSet("LABSOUND_COMPILER_VISUAL_STUDIO")
        /\ IsSet("_USE_MATH_DEFINES") => IsSet("LABSOUND_COMPILER_VISUAL_STUDIO")
        /\ "stdint.h" \in included => IsSet("LABSOUND_COMPILER_VISUAL_STUDIO")
        /\ "cmath" \in included => IsSet("LABSOUND_COMPILER_VISUAL_STUDIO")

\* _MSC_VER alone among the compiler symbols activated the shims.
C6_Witness ==
    /\ Done
    /\ IsSet("_MSC_VER")
    /\ IsSet("LABSOUND_COMPILER_VISUAL_STUDIO")
    /\ ShimsActive

\* No input symbol is predefined.
NoInputs == \A s \in InputSymbols : ~IsSet(s)

\* C7: with no input symbol at all, no output flag is ever set and reading
\* the header never ends in an error.
C7_NothingRecognized ==
    NoInputs => (pc # "error" /\ \A f \in OutputFlags : ~IsSet(f))

\* The header was read to the end with an empty toolchain table.
C7_Witness ==
    /\ Done
    /\ NoInputs
    /\ IsSet("labsound_macros_h")

\* C8: once the header has been read, reading it again is skipped by the
\* include guard and adds, removes and changes no macro and no include.
C8_SecondEvaluationChangesNothing ==
    [][passes >= 1 =>
          /\ macros' = macros
          /\ included' = included
          /\ pc = "guard" => pc' = "endif"]_vars

\* The header has been read twice.
C8_Witness ==
    /\ Done
    /\ passes = 2
    /\ Has(InputSymbols)

\* _M_IX86_FP is defined with a level of at least 2.
Ix86FpAtLeast2 == macros["_M_IX86_FP"] \in {"2", "100"}

\* C9 as stated: __SSE2__ is set exactly when _M_IX86_FP is at least 2, or
\* _M_AMD64 is present (whatever its value), or _M_X64 is present.
C9_Original ==
    Done =>
        (IsSet("__SSE2__")
            <=> (Ix86FpAtLeast2 \/ IsSet("_M_AMD64") \/ IsSet("_M_X64")))

\* C9 amended: __SSE2__ is set exactly when _M_IX86_FP is at least 2, or
\* _M_AMD64 is present with a nonzero value, or _M_X64 is present; the
\* platform, architecture and compiler flags play no part.
C9_Sse2 ==
    Done =>
        (IsSet("__SSE2__")
            <=> (Ix86FpAtLeast2 \/ macros["_M_AMD64"] \in {"1", "2", "100"} \/ IsSet("_M_X64")))

\* _M_AMD64 defined as 0 on a 64-bit target left __SSE2__ unset.
C9_Witness ==
    /\ Done
    /\ macros["_M_AMD64"] = "0"
    /\ IsSet("LABSOUND_ARCH_64")
    /\ ~IsSet("__SSE2__")

\* C10: after the header, ARM_NEON_INTRINSICS is set if and only if
\* __ARM_NEON__ is present; the NEON step changes no other macro and no other
\* step changes ARM_NEON_INTRINSICS.
C10_NeonFrame ==
    /\ [](Done => (IsSet("ARM_NEON_INTRINSICS") <=> IsSet("__ARM_NEON__")))
    /\ [][/\ pc = "neon" =>
                \A n \in Names \ {"ARM_NEON_INTRINSICS"} : macros'[n] = macros[n]
          /\ pc # "neon" =>
                macros'["ARM_NEON_INTRINSICS"] = macros["ARM_NEON_INTRINSICS"]]_vars

\* __ARM_NEON__ next to symbols of the other chains set ARM_NEON_INTRINSICS.
C10_Witness ==
    /\ Done
    /\ IsSet("__ARM_NEON__")
    /\ IsSet("ARM_NEON_INTRINSICS")
    /\ IsSet("LABSOUND_PLATFORM_LINUX")
    /\ IsSet("LABSOUND_ARCH_64")

====
